---------------------------- MODULE Spec2Model ----------------------------
(***************************************************************************)
(* Model of src/kyber.py: the KyberKEM wrapper class around a              *)
(* key-encapsulation object (self.kem) that holds the secret key of the    *)
(* most recent key generation.                                             *)
(*                                                                         *)
(* Byte strings are symbolic records: a key is named by the variant and    *)
(* the random seed it was generated from, a ciphertext by the public key   *)
(* and the random message it encapsulates, a shared secret by what it was  *)
(* derived from.  Every byte string carries its length.                    *)
(***************************************************************************)
EXTENDS Integers, Sequences, FiniteSets, TLC

(* ------------------------------- bounds -------------------------------- *)

\* Number of distinct random seeds key generation may draw.
MaxSeed == 2
\* Number of distinct random messages encapsulation may draw.
MaxMsg == 2
\* Largest iterations argument of benchmark.
MaxIter == 2
\* Number of threads calling generate_keypair concurrently.
MaxThread == 2

Seeds == 1..MaxSeed
Msgs == 1..MaxMsg
Threads == 1..MaxThread

(* ------------------------------ constants ------------------------------ *)

NoVal == [kind |-> "none"]

KyberParameters(n, lvl, pkb, skb, ctb, ssb) ==
    [name |-> n, security_level |-> lvl, public_key_bytes |-> pkb,
     secret_key_bytes |-> skb, ciphertext_bytes |-> ctb,
     shared_secret_bytes |-> ssb]

\* A table with one size wrong (the ciphertext size of Kyber768).
KYBER_PARAMS_WrongSize ==
    [v \in {"Kyber512", "Kyber768", "Kyber1024"} |->
        CASE v = "Kyber512" -> KyberParameters("Kyber512", 128, 800, 1632, 768, 32)
          [] v = "Kyber768" -> KyberParameters("Kyber768", 192, 1184, 2400, 1184, 32)
          [] v = "Kyber1024" -> KyberParameters("Kyber1024", 256, 1568, 3168, 1568, 32)]

KYBER_PARAMS ==
    [v \in {"Kyber512", "Kyber768", "Kyber1024"} |->
        CASE v = "Kyber512" -> KyberParameters("Kyber512", 128, 800, 1632, 768, 32)
          [] v = "Kyber768" -> KyberParameters("Kyber768", 192, 1184, 2400, 1088, 32)
          [] v = "Kyber1024" -> KyberParameters("Kyber1024", 256, 1568, 3168, 1568, 32)]

Variants == DOMAIN KYBER_PARAMS

\* Names a caller may pass to the constructor: the three variants and two others.
Names == Variants \cup {"Kyber256", "kyber768"}

(* ------------------- the key-encapsulation object ---------------------- *)
(* What self.kem does: the lengths it works with, and the KEM of section   *)
(* 4.7 (key generation, encapsulation, decapsulation with implicit         *)
(* rejection) on symbolic byte strings.                                    *)

\* The lengths and level the underlying KEM reports for an algorithm.
OqsDetails(v) ==
    CASE v = "Kyber512" ->
           [length_public_key |-> 800, length_secret_key |-> 1632,
            length_ciphertext |-> 768, length_shared_secret |-> 32,
            claimed_nist_level |-> 1]
      [] v = "Kyber768" ->
           [length_public_key |-> 1184, length_secret_key |-> 2400,
            length_ciphertext |-> 1088, length_shared_secret |-> 32,
            claimed_nist_level |-> 3]
      [] v = "Kyber1024" ->
           [length_public_key |-> 1568, length_secret_key |-> 3168,
            length_ciphertext |-> 1568, length_shared_secret |-> 32,
            claimed_nist_level |-> 5]

Pk(v, s) == [kind |-> "pk", variant |-> v, seed |-> s,
             len |-> OqsDetails(v).length_public_key]

Sk(v, s) == [kind |-> "sk", variant |-> v, seed |-> s,
             len |-> OqsDetails(v).length_secret_key]

\* The ciphertext encapsulating message m under the public key (v, s).
Ct(v, s, m) == [kind |-> "ct", variant |-> v, seed |-> s, m |-> m,
                flip |-> FALSE, len |-> OqsDetails(v).length_ciphertext]

\* KDF(K(m, pk) || H(ct)): the secret both sides derive from a valid ciphertext.
SsK(v, s, m) == [kind |-> "ss", src |-> "K", variant |-> v, keyseed |-> s,
                 ctseed |-> s, m |-> m, flip |-> FALSE,
                 len |-> OqsDetails(v).length_shared_secret]

\* KDF(z || H(ct)): the implicit-rejection secret of the secret key (v, s).
SsZ(v, s, c) == [kind |-> "ss", src |-> "z", variant |-> v, keyseed |-> s,
                 ctseed |-> c.seed, m |-> c.m, flip |-> c.flip,
                 len |-> OqsDetails(v).length_shared_secret]

\* The empty byte string: an input of the wrong length for every variant.
Empty == [kind |-> "raw", len |-> 0]

\* A ciphertext with one bit flipped (flipping it again restores it).
Tamper(c) == [c EXCEPT !.flip = ~c.flip]

\* Encapsulate(pk) with the random message m.
KemEncaps(pk, m) ==
    [ct |-> Ct(pk.variant, pk.seed, m), ss |-> SsK(pk.variant, pk.seed, m)]

\* Decapsulate(sk, ct): the re-encryption check passes exactly for an
\* untampered ciphertext made for sk's public key.
KemDecaps(sk, c) ==
    IF c.variant = sk.variant /\ c.seed = sk.seed /\ ~c.flip
    THEN SsK(sk.variant, sk.seed, c.m)
    ELSE SsZ(sk.variant, sk.seed, c)

\* What the KEM object makes of an input whose length is not the one it
\* expects: the buffer zero-padded to the expected length when the library
\* accepts it (seed 0 and message 0 name no generated key and no drawn
\* message).
PaddedPk(v) == Pk(v, 0)

PaddedCt(v) == Ct(v, 0, 0)

(* The methods of self.kem, as the wrapper calls them.  k is the object:    *)
(* [alg, secret_key], secret_key being NoVal until a key is generated.     *)
(* accept says whether the library takes a wrong-length buffer (pads it)   *)
(* or raises: both happen, depending on the library build.                 *)

NewKem(v) == [kind |-> "kem", alg |-> v, secret_key |-> NoVal]

\* self.kem.generate_keypair(): stores the new secret key in the object and
\* returns the public key only.
KemGenerateKeypair(k, seed) ==
    [kem |-> [k EXCEPT !.secret_key = Sk(k.alg, seed)],
     public_key |-> Pk(k.alg, seed)]

\* self.kem.export_secret_key(): the secret key the object holds now.
KemExportSecretKey(k) == k.secret_key

\* self.kem.encap_secret(public_key) with the random message m.
KemEncapSecret(k, public_key, m, accept) ==
    IF public_key.len = OqsDetails(k.alg).length_public_key
    THEN [err |-> "", drew |-> TRUE,
          ct |-> KemEncaps(public_key, m).ct, ss |-> KemEncaps(public_key, m).ss]
    ELSE IF accept
    THEN [err |-> "", drew |-> TRUE,
          ct |-> KemEncaps(PaddedPk(k.alg), m).ct,
          ss |-> KemEncaps(PaddedPk(k.alg), m).ss]
    ELSE [err |-> "ValueError", drew |-> FALSE, ct |-> NoVal, ss |-> NoVal]

\* self.kem.decap_secret(ciphertext): decapsulates with the secret key the
\* object holds; an object that holds none fails.
KemDecapSecret(k, ciphertext, accept) ==
    IF ciphertext.len # OqsDetails(k.alg).length_ciphertext /\ ~accept
    THEN [err |-> "ValueError", ss |-> NoVal]
    ELSE IF k.secret_key = NoVal
    THEN [err |-> "AttributeError", ss |-> NoVal]
    ELSE IF ciphertext.len = OqsDetails(k.alg).length_ciphertext
    THEN [err |-> "", ss |-> KemDecaps(k.secret_key, ciphertext)]
    ELSE [err |-> "", ss |-> KemDecaps(k.secret_key, PaddedCt(k.alg))]

(* --------------------------- KyberKEM methods -------------------------- *)
(* Each as a function of the instance (self) and the arguments; the timing *)
(* and the debug log line have no effect on the state or the result.       *)

\* Exports the secret key before generating: the key of the previous
\* generation is returned with the new public key.
generate_keypair_ExportFirst(self, seed) ==
    [kem |-> KemGenerateKeypair(self.kem, seed).kem,
     public_key |-> KemGenerateKeypair(self.kem, seed).public_key,
     secret_key |-> KemExportSecretKey(self.kem)]

generate_keypair(self, seed) ==
    LET g == KemGenerateKeypair(self.kem, seed)
    IN  [kem |-> g.kem,
         public_key |-> g.public_key,
         secret_key |-> KemExportSecretKey(g.kem)]

encapsulate(self, public_key, m, accept) ==
    LET e == KemEncapSecret(self.kem, public_key, m, accept)
    IN  [err |-> e.err, kemCalled |-> TRUE, drew |-> e.drew,
         ciphertext |-> e.ct, shared_secret |-> e.ss]

\* secret_key is not used: the object's own key decapsulates.
decapsulate(self, ciphertext, secret_key, accept) ==
    LET d == KemDecapSecret(self.kem, ciphertext, accept)
    IN  [err |-> d.err, kemCalled |-> TRUE, shared_secret |-> d.ss]

get_algorithm_info(self) ==
    [variant |-> self.variant,
     nist_level |-> self.params.security_level,
     public_key_size |-> self.params.public_key_bytes,
     secret_key_size |-> self.params.secret_key_bytes,
     ciphertext_size |-> self.params.ciphertext_bytes,
     shared_secret_size |-> self.params.shared_secret_bytes,
     claimed_nist_level |-> OqsDetails(self.kem.alg).claimed_nist_level]

\* One iteration of the loop of benchmark, drawing seed and m: the three
\* calls back to back, and the assertion.
benchmark_iteration(self, seed, m) ==
    LET g == generate_keypair(self, seed)
        s1 == [self EXCEPT !.kem = g.kem]
        e == encapsulate(s1, g.public_key, m, FALSE)
        d == decapsulate(s1, e.ciphertext, g.secret_key, FALSE)
    IN  [kem |-> s1.kem, sk |-> g.secret_key,
         err |-> IF e.shared_secret = d.shared_secret THEN "" ELSE "AssertionError"]

\* The statistics benchmark returns after the loop: the averages divide by
\* iterations.
benchmark_result(self, iterations) ==
    IF iterations = 0
    THEN [err |-> "ZeroDivisionError", stats |-> NoVal]
    ELSE [err |-> "",
          stats |-> [variant |-> self.variant, iterations |-> iterations]]

\* Takes any name, falling back to the default variant's table entry.
KyberKEM_init_NoCheck(variant, oqsOk) ==
    LET v == IF variant \in DOMAIN KYBER_PARAMS THEN variant ELSE "Kyber768"
    IN  IF ~oqsOk
        THEN [err |-> "RuntimeError", kemCalled |-> FALSE, self |-> NoVal]
        ELSE [err |-> "", kemCalled |-> TRUE,
              self |-> [state |-> "ready", variant |-> variant,
                        params |-> KYBER_PARAMS[v], kem |-> NewKem(v)]]

\* __init__(variant); oqsOk says whether the oqs module was imported.
KyberKEM_init(variant, oqsOk) ==
    IF variant \notin DOMAIN KYBER_PARAMS
    THEN [err |-> "ValueError", kemCalled |-> FALSE, self |-> NoVal]
    ELSE IF ~oqsOk
    THEN [err |-> "RuntimeError", kemCalled |-> FALSE, self |-> NoVal]
    ELSE [err |-> "", kemCalled |-> TRUE,
          self |-> [state |-> "ready", variant |-> variant,
                    params |-> KYBER_PARAMS[variant], kem |-> NewKem(variant)]]

(* -------------------------------- state -------------------------------- *)

VARIABLES
    oqs,       \* whether "import oqs" succeeded
    instance,  \* the KyberKEM object the caller's variable holds (main's kem)
    kp,        \* a keypair the caller kept from a generate_keypair call
    enc,       \* a (public key, ciphertext, shared secret) the caller kept
    memo,      \* a decapsulate call (arguments, result) the caller kept
    last,      \* the most recent call: its arguments and its outcome
    lastGen,   \* the secret key the latest generate_keypair on instance returned
    bench,     \* the benchmark call in progress: [iterations, done], or NoVal
    pc,        \* pc[t]: where thread t is inside generate_keypair
    loc,       \* loc[t]: thread t's local public_key inside generate_keypair
    ret        \* ret[t]: what thread t's latest generate_keypair returned

vars == <<oqs, instance, kp, enc, memo, last, lastGen, bench, pc, loc, ret>>

NoInstance == [state |-> "none", variant |-> "", params |-> NoVal, kem |-> NoVal]

NoCall == [op |-> "none", arg1 |-> NoVal, arg2 |-> NoVal,
           err |-> "", ret1 |-> NoVal, ret2 |-> NoVal,
           kemCalled |-> FALSE, drew |-> FALSE]

Ready == instance.state = "ready"

\* No call is in progress.
AllIdle == bench = NoVal /\ \A t \in Threads : pc[t] = "idle"

\* Byte strings the caller can pass: what it kept, tampered or not, and a
\* string of the wrong length.
PkInputs == {Empty} \cup (IF kp = NoVal THEN {} ELSE {kp.pk})

SkInputs == {Empty} \cup (IF kp = NoVal THEN {} ELSE {kp.sk})

CtInputs == {Empty} \cup (IF enc = NoVal THEN {} ELSE {enc.ct, Tamper(enc.ct)})

\* The library's two ways with a buffer that has not the length it expects
\* (one way with a buffer that has).
Accepts(bytes, what) ==
    IF Ready /\ bytes.len = OqsDetails(instance.kem.alg)[what]
    THEN {FALSE} ELSE BOOLEAN

Init ==
    /\ oqs \in BOOLEAN
    /\ instance = NoInstance
    /\ kp = NoVal
    /\ enc = NoVal
    /\ memo = NoVal
    /\ last = NoCall
    /\ lastGen = NoVal
    /\ bench = NoVal
    /\ pc = [t \in Threads |-> "idle"]
    /\ loc = [t \in Threads |-> NoVal]
    /\ ret = [t \in Threads |-> NoVal]

(* ------------------------------- actions ------------------------------- *)

\* kem = KyberKEM(name): when the construction succeeds the new object
\* replaces the one the caller's variable held (as in main's loop); when it
\* raises, the variable keeps what it held.
New(name) ==
    /\ AllIdle
    /\ LET r == KyberKEM_init(name, oqs)
       IN  /\ instance' = IF r.err = "" THEN r.self ELSE instance
           /\ lastGen' = IF r.err = "" THEN NoVal ELSE lastGen
           /\ last' = [NoCall EXCEPT !.op = "new",
                          !.arg1 = [kind |-> "name", s |-> name],
                          !.err = r.err, !.kemCalled = r.kemCalled]
    /\ UNCHANGED <<oqs, kp, enc, memo, bench, pc, loc, ret>>

\* kem.generate_keypair(); the caller keeps the pair or not.
GenerateKeypair(seed, keep) ==
    /\ Ready /\ AllIdle
    /\ LET r == generate_keypair(instance, seed)
       IN  /\ instance' = [instance EXCEPT !.kem = r.kem]
           /\ lastGen' = r.secret_key
           /\ kp' = IF keep
                    THEN [pk |-> r.public_key, sk |-> r.secret_key]
                    ELSE kp
           /\ last' = [NoCall EXCEPT !.op = "generate_keypair",
                          !.ret1 = r.public_key, !.ret2 = r.secret_key,
                          !.kemCalled = TRUE, !.drew = TRUE]
    /\ UNCHANGED <<oqs, enc, memo, bench, pc, loc, ret>>

\* kem.encapsulate(public_key); the caller keeps the result or not.
Encapsulate(public_key, m, accept, keep) ==
    /\ Ready /\ AllIdle
    /\ LET r == encapsulate(instance, public_key, m, accept)
       IN  /\ enc' = IF keep /\ r.err = ""
                     THEN [pk |-> public_key, ct |-> r.ciphertext,
                           ss |-> r.shared_secret]
                     ELSE enc
           /\ last' = [NoCall EXCEPT !.op = "encapsulate",
                          !.arg1 = public_key, !.err = r.err,
                          !.ret1 = r.ciphertext, !.ret2 = r.shared_secret,
                          !.kemCalled = r.kemCalled, !.drew = r.drew]
    /\ UNCHANGED <<oqs, instance, kp, memo, lastGen, bench, pc, loc, ret>>

\* kem.decapsulate(ciphertext, secret_key); the caller keeps the call or not.
Decapsulate(ciphertext, secret_key, accept, keep) ==
    /\ Ready /\ AllIdle
    /\ LET r == decapsulate(instance, ciphertext, secret_key, accept)
       IN  /\ memo' = IF keep /\ r.err = ""
                      THEN [ct |-> ciphertext, sk |-> secret_key,
                            ss |-> r.shared_secret]
                      ELSE memo
           /\ last' = [NoCall EXCEPT !.op = "decapsulate",
                          !.arg1 = ciphertext, !.arg2 = secret_key,
                          !.err = r.err, !.ret1 = r.shared_secret,
                          !.kemCalled = r.kemCalled]
    /\ UNCHANGED <<oqs, instance, kp, enc, lastGen, bench, pc, loc, ret>>

\* kem.get_algorithm_info()
GetAlgorithmInfo ==
    /\ Ready /\ AllIdle
    /\ last' = [NoCall EXCEPT !.op = "get_algorithm_info",
                   !.ret1 = get_algorithm_info(instance)]
    /\ UNCHANGED <<oqs, instance, kp, enc, memo, lastGen, bench, pc, loc, ret>>

\* kem.benchmark(iterations) is called.
BenchmarkCall(iterations) ==
    /\ Ready /\ AllIdle
    /\ bench' = [iterations |-> iterations, done |-> 0]
    /\ last' = [NoCall EXCEPT !.op = "benchmark",
                   !.arg1 = [kind |-> "int", n |-> iterations],
                   !.err = "running"]
    /\ UNCHANGED <<oqs, instance, kp, enc, memo, lastGen, pc, loc, ret>>

\* The next iteration of the loop; a failed assertion ends the call.
BenchmarkIteration(seed, m) ==
    /\ bench # NoVal /\ bench.done < bench.iterations
    /\ LET r == benchmark_iteration(instance, seed, m)
       IN  /\ instance' = [instance EXCEPT !.kem = r.kem]
           /\ lastGen' = r.sk
           /\ bench' = IF r.err = "" THEN [bench EXCEPT !.done = @ + 1] ELSE NoVal
           /\ last' = [last EXCEPT !.err = IF r.err = "" THEN @ ELSE r.err,
                                   !.kemCalled = TRUE, !.drew = TRUE]
    /\ UNCHANGED <<oqs, kp, enc, memo, pc, loc, ret>>

\* The loop is over: the statistics are computed and returned.
BenchmarkReturn ==
    /\ bench # NoVal /\ bench.done = bench.iterations
    /\ LET r == benchmark_result(instance, bench.iterations)
       IN  last' = [last EXCEPT !.err = r.err, !.ret1 = r.stats]
    /\ bench' = NoVal
    /\ UNCHANGED <<oqs, instance, kp, enc, memo, lastGen, pc, loc, ret>>

\* Thread t, in kem.generate_keypair(): self.kem.generate_keypair().
GenCallKem(t, seed) ==
    /\ Ready /\ bench = NoVal /\ pc[t] = "idle"
    /\ LET g == KemGenerateKeypair(instance.kem, seed)
       IN  /\ instance' = [instance EXCEPT !.kem = g.kem]
           /\ loc' = [loc EXCEPT ![t] = g.public_key]
    /\ pc' = [pc EXCEPT ![t] = "export"]
    /\ ret' = [ret EXCEPT ![t] = NoVal]
    /\ UNCHANGED <<oqs, kp, enc, memo, last, lastGen, bench>>

\* Thread t, in kem.generate_keypair(): self.kem.export_secret_key(), and
\* the return of the pair.
GenExportReturn(t) ==
    /\ pc[t] = "export"
    /\ LET secret_key == KemExportSecretKey(instance.kem)
       IN  /\ ret' = [ret EXCEPT ![t] = [pk |-> loc[t], sk |-> secret_key]]
           /\ lastGen' = secret_key
    /\ pc' = [pc EXCEPT ![t] = "idle"]
    /\ loc' = [loc EXCEPT ![t] = NoVal]
    /\ UNCHANGED <<oqs, instance, kp, enc, memo, last, bench>>

\* The calls of a caller that builds one object and keeps to it, but
\* decapsulate.
Calls ==
    \/ \E name \in Names : instance = NoInstance /\ New(name)
    \/ \E seed \in Seeds, keep \in BOOLEAN : GenerateKeypair(seed, keep)
    \/ \E public_key \in PkInputs, m \in Msgs, keep \in BOOLEAN :
          \E accept \in Accepts(public_key, "length_public_key") :
             Encapsulate(public_key, m, accept, keep)
    \/ GetAlgorithmInfo
    \/ \E iterations \in 0..MaxIter : BenchmarkCall(iterations)
    \/ \E seed \in Seeds, m \in Msgs : BenchmarkIteration(seed, m)
    \/ BenchmarkReturn

\* One caller, one call at a time, on the one object it built.
Next ==
    \/ Calls
    \/ \E ciphertext \in CtInputs, secret_key \in SkInputs :
          \E accept \in Accepts(ciphertext, "length_ciphertext") :
             Decapsulate(ciphertext, secret_key, accept, FALSE)

Spec == Init /\ [][Next]_vars

\* The same caller, which may keep a decapsulate call to repeat it later.
NextRepeat ==
    \/ Calls
    \/ \E ciphertext \in CtInputs, secret_key \in SkInputs, keep \in BOOLEAN :
          \E accept \in Accepts(ciphertext, "length_ciphertext") :
             Decapsulate(ciphertext, secret_key, accept, keep)

SpecRepeat == Init /\ [][NextRepeat]_vars

\* A caller that builds one object after the other, as main does, and uses
\* with the latest what it kept from the earlier ones.
NextRebuild ==
    \/ Next
    \/ \E name \in Names : New(name)

SpecRebuild == Init /\ [][NextRebuild]_vars

\* Threads calling generate_keypair on the one object, with no lock.
NextThreads ==
    \/ \E name \in Names : instance = NoInstance /\ New(name)
    \/ \E t \in Threads, seed \in Seeds : GenCallKem(t, seed)
    \/ \E t \in Threads : GenExportReturn(t)

SpecThreads == Init /\ [][NextThreads]_vars

(* ------------------------------- claims -------------------------------- *)

\* The caller holds a keypair and an encapsulation made for its public key.
HoldsPair == kp # NoVal /\ enc # NoVal /\ enc.pk = kp.pk

\* C1: round trip.  Decapsulating the ciphertext encapsulate returned for
\* pk, with the sk generate_keypair returned with pk, returns the shared
\* secret encapsulate returned, whatever was called in between.
C1_RoundTrip ==
    (last.op = "decapsulate" /\ HoldsPair
        /\ last.arg1 = enc.ct /\ last.arg2 = kp.sk)
    => (last.err = "" /\ last.ret1 = enc.ss)

\* C2: encapsulate with a public key whose length is not the variant's fails,
\* before the underlying KEM is called and before randomness is drawn.
C2_WrongLengthPublicKeyRejected ==
    (last.op = "encapsulate"
        /\ last.arg1.len # instance.params.public_key_bytes)
    => (last.err # "" /\ ~last.kemCalled /\ ~last.drew)

\* C3: decapsulate with a ciphertext or a secret key whose length is not the
\* variant's fails and returns no shared secret.
C3_WrongLengthDecapsulateRejected ==
    (last.op = "decapsulate"
        /\ (\/ last.arg1.len # instance.params.ciphertext_bytes
            \/ last.arg2.len # instance.params.secret_key_bytes))
    => (last.err # "" /\ last.ret1 = NoVal)

\* C4: the constructor fails with the invalid-variant error exactly for a
\* name that is none of Kyber512, Kyber768, Kyber1024; then there is no
\* object and no underlying KEM was created; when it succeeds the object's
\* parameters are the table entry of that name.
C4_InvalidVariantExactlyForUnknownNames ==
    last.op = "new" =>
        /\ (last.err = "ValueError") <=>
              (last.arg1.s \notin {"Kyber512", "Kyber768", "Kyber1024"})
        /\ (last.err = "ValueError") =>
              (instance = NoInstance /\ ~last.kemCalled)
        /\ (last.err = "") =>
              (/\ Ready
               /\ instance.variant = last.arg1.s
               /\ instance.params.name = last.arg1.s
               /\ instance.params = KYBER_PARAMS[last.arg1.s])

\* A name in the wrong case was refused, with the library present.
C4_Witness ==
    oqs /\ last.op = "new" /\ last.arg1.s = "kyber768" /\ last.err = "ValueError"

\* The sizes of the table of section 6.
Section6(v) ==
    CASE v = "Kyber512" -> [pk |-> 800, sk |-> 1632, ct |-> 768, ss |-> 32]
      [] v = "Kyber768" -> [pk |-> 1184, sk |-> 2400, ct |-> 1088, ss |-> 32]
      [] v = "Kyber1024" -> [pk |-> 1568, sk |-> 3168, ct |-> 1568, ss |-> 32]

\* C5: fixed sizes.  What generate_keypair, encapsulate and decapsulate
\* return has the lengths of the table of section 6 for the object's
\* variant, and get_algorithm_info reports those sizes.
C5_FixedSizes ==
    Ready =>
        LET t == Section6(instance.variant)
        IN  /\ (last.op = "generate_keypair") =>
                  (last.ret1.len = t.pk /\ last.ret2.len = t.sk)
            /\ (last.op = "encapsulate" /\ last.err = "") =>
                  (last.ret1.len = t.ct /\ last.ret2.len = t.ss)
            /\ (last.op = "decapsulate" /\ last.err = "") =>
                  (last.ret1.len = t.ss)
            /\ (last.op = "get_algorithm_info") =>
                  (/\ last.ret1.public_key_size = t.pk
                   /\ last.ret1.secret_key_size = t.sk
                   /\ last.ret1.ciphertext_size = t.ct
                   /\ last.ret1.shared_secret_size = t.ss)

\* get_algorithm_info was called on a Kyber768 object that has generated a key.
C5_Witness ==
    /\ last.op = "get_algorithm_info" /\ instance.variant = "Kyber768"
    /\ lastGen # NoVal /\ last.ret1.ciphertext_size = 1088

\* C6: implicit rejection.  Decapsulating a tampered ciphertext raises no
\* error, never returns the secret encapsulate produced, and returns the
\* same value when repeated with the same ciphertext and secret key.
C6_ImplicitRejection ==
    (last.op = "decapsulate" /\ HoldsPair
        /\ last.arg1 = Tamper(enc.ct) /\ last.arg2 = kp.sk)
    => /\ last.err = ""
       /\ last.ret1 # enc.ss
       /\ (memo # NoVal /\ memo.ct = last.arg1 /\ memo.sk = last.arg2)
             => (memo.ss = last.ret1)

\* C7: no persisted state.  generate_keypair, encapsulate and decapsulate
\* leave the object as it was, and a decapsulate call returns what the same
\* call (same ciphertext, same secret key) returned before.
C7_NoPersistedState ==
    [][last'.op \in {"generate_keypair", "encapsulate", "decapsulate"} =>
          /\ instance' = instance
          /\ (last'.op = "decapsulate" /\ last'.err = "" /\ memo' # NoVal
                 /\ memo'.ct = last'.arg1 /\ memo'.sk = last'.arg2)
                => (memo'.ss = last'.ret1)]_vars

\* C8: concurrent generate_keypair calls.  The pair each call returns
\* belongs together: the secret key is the one generated with the public key.
C8_ConcurrentPairsBelongTogether ==
    \A t \in Threads :
        ret[t] # NoVal => ret[t].sk = Sk(ret[t].pk.variant, ret[t].pk.seed)

\* C9: decapsulate is total.  With a ciphertext and a secret key of the
\* variant's sizes, the key made by an object of that variant, decapsulate
\* returns a shared secret, also on an object that never generated a key.
C9_DecapsulateTotal ==
    (last.op = "decapsulate" /\ kp # NoVal /\ last.arg2 = kp.sk
        /\ last.arg1.len = instance.params.ciphertext_bytes
        /\ last.arg2.len = instance.params.secret_key_bytes)
    => (last.err = "" /\ last.ret1.kind = "ss")

\* The ciphertext the KEM object decapsulates, given the argument.
Coerced(ciphertext) ==
    IF ciphertext.len = OqsDetails(instance.kem.alg).length_ciphertext
    THEN ciphertext ELSE PaddedCt(instance.kem.alg)

====
